---- MODULE Spec2Model ----
(***************************************************************************)
(* Model of the wsget command engine: the ws.Connection lifecycle          *)
(* (background receive loop, Send, Close, the Messages channel and the     *)
(* sync.WaitGroup), the command chain that drives it, the command parser   *)
(* (Factory.Create, CommandFactory, CmdEdit) and the macro repository      *)
(* (AddCommands, merge, parseConfig, LoadMacroForDomain).                  *)
(***************************************************************************)
EXTENDS Integers, Sequences, FiniteSets, TLC

\* ---------------------------------------------------------------- bounds
\* capacity of the Messages channel (WSMessageBufferSize = 100 in the source,
\* scaled down so that a full buffer is reachable)
BufferSize == 1
\* messages the peer sends on its own
MaxMsgs == 2
\* Connection.Send calls made by callers other than the command driver
MaxSends == 1
\* concurrent callers of Connection.Close
NumClosers == 2
\* longest list given to NewCommandSequence
MaxSeqLen == 2
\* longest command line, in words
MaxTokens == 3
\* AddCommands calls made on one Repo
MaxAdds == 3
\* entries of the directory given to LoadMacroForDomain
MaxFiles == 2

Data == {"a", "b"}
Senders == {"s1"}
Driver == "drv"
SendIds == Senders \cup {Driver}
Closers == 1..NumClosers

VARIABLES
    isClosed,      \* Connection.isClosed (atomic.Bool)
    wsState,       \* Connection.ws: "open" or "closed" (closed by this side)
    wsCloses,      \* number of ws.Close() calls made
    peerState,     \* the remote end: "up", "eof" (closed by the server), "err"
    peerEcho,      \* TRUE when the peer echoes every request it receives
    peerSent,      \* messages the peer has sent on its own
    wire,          \* messages sent by the peer, not yet read by Receive
    Messages,      \* buffered content of the Messages channel
    msgClosed,     \* the Messages channel has been closed
    msgCloses,     \* number of close(Messages) executed
    waitGroup,     \* counter of Connection.waitGroup
    panicked,      \* "none" or the runtime panic raised
    loopPc,        \* position of handleResponses
    held,          \* msg read by Receive, not yet published
    errCause,      \* why Receive failed: "none", "local", "EOF", "other"
    reported,      \* failure line printed by handleResponses, or "none"
    sendPc,        \* position of each Send call
    sendArg,       \* its msg argument
    sendRes,       \* its result: "none", "ok", "err"
    sendCalls,     \* Send calls started by Senders
    closePc,       \* position of each Close call
    closeOverlap,  \* history: some Close call started while another was running
    readLog,       \* history: messages read from the transport, in order
    consumed,      \* history: messages received from the Messages channel
    drvPc,         \* the caller of Execute: "off", "direct", or inside
                   \* CommandSequence.Execute: "idle", "run", "inSend", "returned"
    subCommands,   \* CommandSequence.subCommands
    seqIdx,        \* index of the range loop over subCommands
    cmd,           \* the loop variable cmd: the command to Execute next
    seqErr,        \* error returned by CommandSequence.Execute, or "nil"
    output,        \* what was written to exCtx.Output()
    hasFile,       \* exCtx.OutputFile() != nil
    fileOut,       \* what was written to exCtx.OutputFile()
    execLog,       \* history: the Execute calls made by the sequence, with results
    waitMark,      \* history: set by a WaitForResp that timed out
    lastWait,      \* history: outcome of the latest WaitForResp
    fac,           \* the parser and its caller: [op] before a call, then
                   \* [op, raw, macro, edErr, created, rpt]
    mac            \* package macro: [op] before a call, then [op, repo, addLog],
                   \* [op, cfgIn, parsed, addLog] or [op, load, merge, addLog]

connVars == <<isClosed, wsState, wsCloses, peerState, peerEcho, peerSent, wire,
              Messages, msgClosed, msgCloses, waitGroup, panicked>>
loopVars == <<loopPc, held, errCause, reported>>
sendVars == <<sendPc, sendArg, sendRes, sendCalls>>
closeVars == <<closePc, closeOverlap>>
histVars == <<readLog, consumed>>
drvVars == <<drvPc, subCommands, seqIdx, cmd, seqErr, output, hasFile, fileOut,
             execLog, waitMark, lastWait>>
facVars == <<fac, mac>>
vars == <<connVars, loopVars, sendVars, closeVars, histVars, drvVars, facVars>>

\* the call made on the parser: "none", "Create", "CmdEdit"
facOp == fac.op
\* the line given to Factory.Create, or typed into the editor
raw == fac.raw
\* the macro repository the factory was built with, or NoRepo
facMacro == fac.macro
\* the error returned by the editor, or NoErr
edErr == fac.edErr
\* what the call returned: (Executer, error), or the panic that ended it
created == fac.created
\* the run of a Repeat command: [pc, left, cmd, log, err]
rpt == fac.rpt

\* the call made on package macro: "none", "add", "parse", "load"
macOp == mac.op
\* the Repo that AddCommands is called on
repo == mac.repo
\* history: the AddCommands calls made, in order
addLog == mac.addLog
\* the source given to parseConfig
cfgIn == mac.cfgIn
\* what parseConfig returned: [repo, err]
parsed == mac.parsed
\* LoadMacroForDomain: [pc, files, domain, idx, macro, err, applied]
load == mac.load
\* history: the latest merge: [called, before, src, after, err]
merge == mac.merge

NoData == "-"

Message(type, data) == [Type |-> type, Data |-> data]

\* ------------------------------------------------------------ NewWS
ConnInit ==
    /\ isClosed = FALSE
    /\ wsState = "open"
    /\ wsCloses = 0
    /\ peerState = "up"
    /\ peerSent = 0
    /\ wire = <<>>
    /\ Messages = <<>>
    /\ msgClosed = FALSE
    /\ msgCloses = 0
    /\ waitGroup = 0
    /\ panicked = "none"
    /\ loopPc = "recv"
    /\ held = NoData
    /\ errCause = "none"
    /\ reported = "none"
    /\ sendPc = [s \in SendIds |-> "idle"]
    /\ sendArg = [s \in SendIds |-> NoData]
    /\ sendRes = [s \in SendIds |-> "none"]
    /\ sendCalls = 0
    /\ closePc = [c \in Closers |-> "idle"]
    /\ closeOverlap = FALSE
    /\ readLog = <<>>
    /\ consumed = <<>>

\* ------------------------------------------------------------ the peer
PeerSend(d) ==
    /\ peerState = "up"
    /\ ~peerEcho
    /\ peerSent < MaxMsgs
    /\ wire' = Append(wire, d)
    /\ peerSent' = peerSent + 1
    /\ UNCHANGED <<isClosed, wsState, wsCloses, peerState, peerEcho, Messages,
                   msgClosed, msgCloses, waitGroup, panicked>>
    /\ UNCHANGED <<loopVars, sendVars, closeVars, histVars>>
    /\ UNCHANGED <<drvVars, facVars>>

PeerFail(k) ==
    /\ peerState = "up"
    /\ peerState' = k
    /\ UNCHANGED <<isClosed, wsState, wsCloses, peerEcho, peerSent, wire, Messages,
                   msgClosed, msgCloses, waitGroup, panicked>>
    /\ UNCHANGED <<loopVars, sendVars, closeVars, histVars>>
    /\ UNCHANGED <<drvVars, facVars>>

\* ------------------------------------------------------------ handleResponses
\* websocket.Message.Receive(wsInsp.ws, &msg)
Loop_Receive ==
    /\ loopPc = "recv"
    /\ IF wsState = "closed"
         THEN /\ errCause' = "local"
              /\ loopPc' = "check"
              /\ UNCHANGED <<held, wire, readLog>>
       ELSE IF peerState = "err"
         THEN /\ errCause' = "other"
              /\ loopPc' = "check"
              /\ UNCHANGED <<held, wire, readLog>>
       ELSE IF wire # <<>>
         THEN /\ held' = Head(wire)
              /\ wire' = Tail(wire)
              /\ readLog' = Append(readLog, Head(wire))
              /\ loopPc' = "publish"
              /\ UNCHANGED errCause
       ELSE /\ peerState = "eof"
            /\ errCause' = "EOF"
            /\ loopPc' = "check"
            /\ UNCHANGED <<held, wire, readLog>>
    /\ UNCHANGED <<isClosed, wsState, wsCloses, peerState, peerEcho, peerSent,
                   Messages, msgClosed, msgCloses, waitGroup, panicked>>
    /\ UNCHANGED <<reported, consumed>>
    /\ UNCHANGED <<sendVars, closeVars>>
    /\ UNCHANGED <<drvVars, facVars>>

\* Loop_Check with a close(Messages) added before the return of the
\* explicitly-closed branch, on top of the deferred one
Loop_Check_ClosesToo ==
    /\ loopPc = "check"
    /\ reported' = IF isClosed THEN reported
                   ELSE IF errCause = "EOF" THEN "Connection closed by the server"
                   ELSE "Fail read from connection"
    /\ loopPc' = "wait"
    /\ msgClosed' = (msgClosed \/ isClosed)
    /\ msgCloses' = IF isClosed THEN msgCloses + 1 ELSE msgCloses
    /\ UNCHANGED <<held, errCause>>
    /\ UNCHANGED <<isClosed, wsState, wsCloses, peerState, peerEcho, peerSent, wire,
                   Messages, waitGroup, panicked>>
    /\ UNCHANGED <<sendVars, closeVars, histVars>>
    /\ UNCHANGED <<drvVars, facVars>>

\* if err != nil { if isClosed.Load() { return }; Println(...); return }
Loop_Check ==
    /\ loopPc = "check"
    /\ reported' = IF isClosed THEN reported
                   ELSE IF errCause = "EOF" THEN "Connection closed by the server"
                   ELSE "Fail read from connection"
    /\ loopPc' = "wait"
    /\ UNCHANGED <<held, errCause>>
    /\ UNCHANGED <<connVars, sendVars, closeVars, histVars>>
    /\ UNCHANGED <<drvVars, facVars>>

\* Loop_Publish that does not block on a full buffer: it drops the oldest
\* buffered message to make room
Loop_Publish_DropOldest ==
    /\ loopPc = "publish"
    /\ ~msgClosed
    /\ Messages' = IF Len(Messages) < BufferSize
                     THEN Append(Messages, Message("Response", held))
                     ELSE Append(Tail(Messages), Message("Response", held))
    /\ held' = NoData
    /\ loopPc' = "recv"
    /\ UNCHANGED <<isClosed, wsState, wsCloses, peerState, peerEcho, peerSent, wire,
                   msgClosed, msgCloses, waitGroup, panicked>>
    /\ UNCHANGED <<errCause, reported>>
    /\ UNCHANGED <<sendVars, closeVars, histVars>>
    /\ UNCHANGED <<drvVars, facVars>>

\* wsInsp.Messages <- Message{Type: Response, Data: msg}
Loop_Publish ==
    /\ loopPc = "publish"
    /\ IF msgClosed
         THEN /\ panicked' = "send on closed channel"
              /\ loopPc' = "panic"
              /\ UNCHANGED <<Messages, held>>
         ELSE /\ Len(Messages) < BufferSize
              /\ Messages' = Append(Messages, Message("Response", held))
              /\ held' = NoData
              /\ loopPc' = "recv"
              /\ UNCHANGED panicked
    /\ UNCHANGED <<isClosed, wsState, wsCloses, peerState, peerEcho, peerSent, wire,
                   msgClosed, msgCloses, waitGroup>>
    /\ UNCHANGED <<errCause, reported>>
    /\ UNCHANGED <<sendVars, closeVars, histVars>>
    /\ UNCHANGED <<drvVars, facVars>>

\* defer: wsInsp.waitGroup.Wait()
Loop_Wait ==
    /\ loopPc = "wait"
    /\ waitGroup = 0
    /\ loopPc' = "close"
    /\ UNCHANGED <<held, errCause, reported>>
    /\ UNCHANGED <<connVars, sendVars, closeVars, histVars>>
    /\ UNCHANGED <<drvVars, facVars>>

\* defer: close(wsInsp.Messages)
Loop_Close ==
    /\ loopPc = "close"
    /\ IF msgClosed
         THEN /\ panicked' = "close of closed channel"
              /\ loopPc' = "panic"
              /\ UNCHANGED <<msgClosed, msgCloses>>
         ELSE /\ msgClosed' = TRUE
              /\ msgCloses' = msgCloses + 1
              /\ loopPc' = "done"
              /\ UNCHANGED panicked
    /\ UNCHANGED <<isClosed, wsState, wsCloses, peerState, peerEcho, peerSent, wire,
                   Messages, waitGroup>>
    /\ UNCHANGED <<held, errCause, reported>>
    /\ UNCHANGED <<sendVars, closeVars, histVars>>
    /\ UNCHANGED <<drvVars, facVars>>

handleResponses ==
    \/ Loop_Receive
    \/ Loop_Check
    \/ Loop_Publish
    \/ Loop_Wait
    \/ Loop_Close

\* ------------------------------------------------------------ commands
NoMsg == Message("NotDefined", NoData)

Nil == [kind |-> "nil", request |-> NoData, timeout |-> 0, msg |-> NoMsg]

NewCommandSend(request) ==
    [kind |-> "Send", request |-> request, timeout |-> 0, msg |-> NoMsg]

NewCommandPrintMsg(msg) ==
    [kind |-> "PrintMsg", request |-> NoData, timeout |-> 0, msg |-> msg]

NewCommandExit == [kind |-> "Exit", request |-> NoData, timeout |-> 0, msg |-> NoMsg]

NewCommandWaitForResp(timeout) ==
    [kind |-> "WaitForResp", request |-> NoData, timeout |-> timeout, msg |-> NoMsg]

\* timeouts in seconds; 0 waits for ever
Timeouts == {0, 1}

\* NewCommandEdit(""): the editor opened on an empty request
CommandEditEmpty == [kind |-> "Edit", request |-> "", timeout |-> 0, msg |-> NoMsg]

SubCommandSet ==
    {NewCommandSend(d) : d \in Data}
        \cup {NewCommandWaitForResp(t) : t \in Timeouts}
        \cup {NewCommandExit}

Programs == UNION {[1..n -> SubCommandSet] : n \in 0..MaxSeqLen}

Result(next, err) == [next |-> next, err |-> err]

\* Formater.FormatMessage: a payload that is not structured passes through
\* unchanged; a message of an undefined type is an error
FormatMessage(msg) ==
    IF msg.Type \in {"Request", "Response"}
      THEN [text |-> msg.Data, err |-> "nil"]
      ELSE [text |-> "", err |-> "unknown message type"]

\* Formater.FormatForFile
FormatForFile(msg) ==
    IF msg.Type \in {"Request", "Response"}
      THEN [text |-> msg.Data, err |-> "nil"]
      ELSE [text |-> "", err |-> "unknown message type"]

\* ------------------------------------------------------------ CommandSequence
\* Seq_Continue that goes on to the next sub-command after one Execute,
\* dropping the command Execute returned
Seq_Continue_NoDrain(r) ==
    /\ execLog' = Append(execLog, [sub |-> seqIdx, cmd |-> cmd, next |-> r.next,
                                   err |-> r.err])
    /\ IF r.err # "nil"
         THEN /\ seqErr' = r.err
              /\ drvPc' = "returned"
              /\ cmd' = Nil
              /\ UNCHANGED seqIdx
       ELSE IF seqIdx < Len(subCommands)
         THEN /\ seqIdx' = seqIdx + 1
              /\ cmd' = subCommands[seqIdx + 1]
              /\ drvPc' = "run"
              /\ UNCHANGED seqErr
       ELSE /\ drvPc' = "returned"
            /\ cmd' = Nil
            /\ UNCHANGED <<seqIdx, seqErr>>
    /\ UNCHANGED <<subCommands, hasFile, facVars>>

\* the two loops of CommandSequence.Execute, from the return of one
\* cmd.Execute(exCtx) with result r to the next call or to the return
Seq_Continue(r) ==
    /\ execLog' = Append(execLog, [sub |-> seqIdx, cmd |-> cmd, next |-> r.next,
                                   err |-> r.err])
    /\ IF r.err # "nil"
         THEN /\ seqErr' = r.err
              /\ drvPc' = "returned"
              /\ cmd' = Nil
              /\ UNCHANGED seqIdx
       ELSE IF r.next # Nil
         THEN /\ cmd' = r.next
              /\ drvPc' = "run"
              /\ UNCHANGED <<seqIdx, seqErr>>
       ELSE IF seqIdx < Len(subCommands)
         THEN /\ seqIdx' = seqIdx + 1
              /\ cmd' = subCommands[seqIdx + 1]
              /\ drvPc' = "run"
              /\ UNCHANGED seqErr
       ELSE /\ drvPc' = "returned"
            /\ cmd' = Nil
            /\ UNCHANGED <<seqIdx, seqErr>>
    /\ UNCHANGED <<subCommands, hasFile, facVars>>

\* a caller runs NewCommandSequence(subs).Execute(exCtx)
CommandSequence_Execute(subs) ==
    /\ drvPc = "idle"
    /\ subCommands' = subs
    /\ IF subs = <<>>
         THEN /\ drvPc' = "returned"
              /\ UNCHANGED <<seqIdx, cmd>>
         ELSE /\ drvPc' = "run"
              /\ seqIdx' = 1
              /\ cmd' = subs[1]
    /\ UNCHANGED <<seqErr, output, hasFile, fileOut, execLog, waitMark, lastWait>>
    /\ UNCHANGED facVars
    /\ UNCHANGED <<connVars, loopVars, sendVars, closeVars, histVars>>

\* ------------------------------------------------------------ CommandSend
\* CommandSend_Result that returns no next command after a successful send
CommandSend_Result_NoPrint(res, request) ==
    IF res = "err"
      THEN Result(Nil, "fail to send request")
      ELSE Result(Nil, "nil")

\* CommandSend_Result that hands back the PrintMsg command with the error
CommandSend_Result_PrintsOnError(res, request) ==
    IF res = "err"
      THEN Result(NewCommandPrintMsg(Message("Request", request)),
                  "fail to send request")
      ELSE Result(NewCommandPrintMsg(Message("Request", request)), "nil")

\* what CommandSend.Execute returns for the result of Connection.Send
CommandSend_Result(res, request) ==
    IF res = "err"
      THEN Result(Nil, "fail to send request")
      ELSE Result(NewCommandPrintMsg(Message("Request", request)), "nil")

\* ------------------------------------------------------------ Send
\* wsInsp.waitGroup.Add(1)
Send_Add(s, msg) ==
    /\ sendPc[s] = "idle"
    /\ waitGroup' = waitGroup + 1
    /\ sendPc' = [sendPc EXCEPT ![s] = "write"]
    /\ sendArg' = [sendArg EXCEPT ![s] = msg]
    /\ UNCHANGED sendRes
    /\ UNCHANGED <<isClosed, wsState, wsCloses, peerState, peerEcho, peerSent, wire,
                   Messages, msgClosed, msgCloses, panicked>>
    /\ UNCHANGED <<loopVars, closeVars, histVars>>

\* err := websocket.Message.Send(wsInsp.ws, msg)
Send_Write(s) ==
    /\ sendPc[s] = "write"
    /\ IF wsState = "open" /\ peerState = "up"
         THEN /\ sendRes' = [sendRes EXCEPT ![s] = "ok"]
              /\ wire' = IF peerEcho THEN Append(wire, sendArg[s]) ELSE wire
         ELSE /\ sendRes' = [sendRes EXCEPT ![s] = "err"]
              /\ UNCHANGED wire
    /\ sendPc' = [sendPc EXCEPT ![s] = "deferred"]
    /\ UNCHANGED <<sendArg, sendCalls>>
    /\ UNCHANGED <<isClosed, wsState, wsCloses, peerState, peerEcho, peerSent,
                   Messages, msgClosed, msgCloses, waitGroup, panicked>>
    /\ UNCHANGED <<loopVars, closeVars, histVars>>
    /\ UNCHANGED <<drvVars, facVars>>

\* defer wsInsp.waitGroup.Done(), and the return
Send_Done(s) ==
    /\ sendPc[s] = "deferred"
    /\ waitGroup' = waitGroup - 1
    /\ sendPc' = [sendPc EXCEPT ![s] = "idle"]
    /\ sendArg' = [sendArg EXCEPT ![s] = NoData]
    /\ sendRes' = [sendRes EXCEPT ![s] = "none"]
    /\ UNCHANGED sendCalls
    /\ UNCHANGED <<isClosed, wsState, wsCloses, peerState, peerEcho, peerSent, wire,
                   Messages, msgClosed, msgCloses, panicked>>
    /\ UNCHANGED <<loopVars, closeVars, histVars>>
    /\ IF s = Driver
         THEN /\ Seq_Continue(CommandSend_Result(sendRes[s], sendArg[s]))
              /\ UNCHANGED <<output, fileOut, waitMark, lastWait>>
         ELSE UNCHANGED <<drvVars, facVars>>

InFlight(s) == sendPc[s] \in {"write", "deferred"}

\* a Send call made directly on the Connection
SendCall(s, msg) ==
    /\ s \in Senders
    /\ sendCalls < MaxSends
    /\ sendCalls' = sendCalls + 1
    /\ Send_Add(s, msg)
    /\ UNCHANGED <<drvVars, facVars>>

\* ------------------------------------------------------------ Close
CloseRunning(c) == closePc[c] \in {"store", "wsclose"}

\* Close_Load without the early return
Close_Load_NoCheck(c) ==
    /\ closePc[c] = "idle"
    /\ closePc' = [closePc EXCEPT ![c] = "store"]
    /\ closeOverlap' = (closeOverlap \/ \E o \in Closers \ {c} : CloseRunning(o))
    /\ UNCHANGED <<connVars, loopVars, sendVars, histVars>>
    /\ UNCHANGED <<drvVars, facVars>>

\* if wsInsp.isClosed.Load() { return }
Close_Load(c) ==
    /\ closePc[c] = "idle"
    /\ closePc' = [closePc EXCEPT ![c] = IF isClosed THEN "done" ELSE "store"]
    /\ closeOverlap' = (closeOverlap \/ \E o \in Closers \ {c} : CloseRunning(o))
    /\ UNCHANGED <<connVars, loopVars, sendVars, histVars>>
    /\ UNCHANGED <<drvVars, facVars>>

\* Close_Store releasing the transport where the flag should be set
\* (ws.Close() ahead of isClosed.Store(true), which is then never reached)
Close_Store_WsCloseFirst(c) ==
    /\ closePc[c] = "store"
    /\ wsState' = "closed"
    /\ wsCloses' = wsCloses + 1
    /\ closePc' = [closePc EXCEPT ![c] = "wsclose"]
    /\ UNCHANGED closeOverlap
    /\ UNCHANGED <<isClosed, peerState, peerEcho, peerSent, wire, Messages,
                   msgClosed, msgCloses, waitGroup, panicked>>
    /\ UNCHANGED <<loopVars, sendVars, histVars>>
    /\ UNCHANGED <<drvVars, facVars>>

\* wsInsp.isClosed.Store(true)
Close_Store(c) ==
    /\ closePc[c] = "store"
    /\ isClosed' = TRUE
    /\ closePc' = [closePc EXCEPT ![c] = "wsclose"]
    /\ UNCHANGED closeOverlap
    /\ UNCHANGED <<wsState, wsCloses, peerState, peerEcho, peerSent, wire, Messages,
                   msgClosed, msgCloses, waitGroup, panicked>>
    /\ UNCHANGED <<loopVars, sendVars, histVars>>
    /\ UNCHANGED <<drvVars, facVars>>

\* Close_WsClose closing the Messages channel as well
Close_WsClose_ClosesMessages(c) ==
    /\ closePc[c] = "wsclose"
    /\ wsState' = "closed"
    /\ wsCloses' = wsCloses + 1
    /\ msgClosed' = TRUE
    /\ msgCloses' = msgCloses + 1
    /\ closePc' = [closePc EXCEPT ![c] = "done"]
    /\ UNCHANGED closeOverlap
    /\ UNCHANGED <<isClosed, peerState, peerEcho, peerSent, wire, Messages,
                   waitGroup, panicked>>
    /\ UNCHANGED <<loopVars, sendVars, histVars>>
    /\ UNCHANGED <<drvVars, facVars>>

\* wsInsp.ws.Close()
Close_WsClose(c) ==
    /\ closePc[c] = "wsclose"
    /\ wsState' = "closed"
    /\ wsCloses' = wsCloses + 1
    /\ closePc' = [closePc EXCEPT ![c] = "done"]
    /\ UNCHANGED closeOverlap
    /\ UNCHANGED <<isClosed, peerState, peerEcho, peerSent, wire, Messages,
                   msgClosed, msgCloses, waitGroup, panicked>>
    /\ UNCHANGED <<loopVars, sendVars, histVars>>
    /\ UNCHANGED <<drvVars, facVars>>

Close(c) ==
    \/ Close_Load(c)
    \/ Close_Store(c)
    \/ Close_WsClose(c)

\* ------------------------------------------------------------ a consumer
\* msg, ok := <-Messages
Receive ==
    /\ Messages # <<>>
    /\ consumed' = Append(consumed, Head(Messages).Data)
    /\ Messages' = Tail(Messages)
    /\ UNCHANGED readLog
    /\ UNCHANGED <<isClosed, wsState, wsCloses, peerState, peerEcho, peerSent, wire,
                   msgClosed, msgCloses, waitGroup, panicked>>
    /\ UNCHANGED <<loopVars, sendVars, closeVars>>
    /\ UNCHANGED <<drvVars, facVars>>

\* ------------------------------------------------------------ Execute
\* CommandSend.Execute entering exCtx.Connection().Send(c.request)
CommandSend_Execute ==
    /\ drvPc = "run"
    /\ cmd.kind = "Send"
    /\ Send_Add(Driver, cmd.request)
    /\ drvPc' = "inSend"
    /\ UNCHANGED sendCalls
    /\ UNCHANGED <<subCommands, seqIdx, cmd, seqErr, output, hasFile, fileOut,
                   execLog, waitMark, lastWait, facVars>>

\* ------------------------------------------------------------ CommandEdit
\* the texts the request editor can return, and its errors
EditorTexts == Data \cup {""}

EditorErrs == {"nil", "editor error"}

\* CommandEdit_Result that sends whatever text the editor returned
CommandEdit_Result_SendsAlways(req, err) ==
    IF err # "nil"
      THEN Result(Nil, err)
      ELSE Result(NewCommandSend(req), "nil")

\* what CommandEdit.Execute returns after the editor returned (req, err)
CommandEdit_Result(req, err) ==
    IF err # "nil" \/ req = ""
      THEN Result(Nil, err)
      ELSE Result(NewCommandSend(req), "nil")

\* CommandEdit.Execute up to the return of exCtx.RequestEditor().Edit with
\* (req, err). The prompt line "->" it writes before the call is erased
\* after it (LineUp, LineClear): no line is left in output
CommandEdit_Execute(req, err) ==
    /\ drvPc = "run"
    /\ cmd.kind = "Edit"
    /\ drvPc' = "inEdit"
    /\ fac' = [op |-> "Edit", req |-> req, edErr |-> err]
    /\ UNCHANGED mac
    /\ UNCHANGED <<subCommands, seqIdx, cmd, seqErr, output, hasFile, fileOut,
                   execLog, waitMark, lastWait>>
    /\ UNCHANGED <<connVars, loopVars, sendVars, closeVars, histVars>>

\* CommandEdit.Execute from the return of the editor to its own return
CommandEdit_Return ==
    /\ drvPc = "inEdit"
    /\ facOp = "Edit"
    /\ Seq_Continue(CommandEdit_Result(fac.req, edErr))
    /\ UNCHANGED <<output, fileOut, waitMark, lastWait>>
    /\ UNCHANGED <<connVars, loopVars, sendVars, closeVars, histVars>>

\* CommandPrintMsg.Execute
CommandPrintMsg_Execute ==
    /\ drvPc = "run"
    /\ cmd.kind = "PrintMsg"
    /\ LET msg == cmd.msg
           f == FormatMessage(msg)
           ff == FormatForFile(msg)
           arrow == IF msg.Type = "Request" THEN "->" ELSE "<-"
       IN  IF f.err # "nil"
             THEN /\ Seq_Continue(Result(Nil, "fail to format for output file"))
                  /\ UNCHANGED <<output, fileOut>>
           ELSE IF msg.Type \notin {"Request", "Response"}
             THEN /\ Seq_Continue(Result(Nil, "unknown message type"))
                  /\ UNCHANGED <<output, fileOut>>
           ELSE /\ output' = Append(output, [arrow |-> arrow, text |-> f.text])
                /\ IF hasFile /\ ff.err # "nil"
                     THEN /\ Seq_Continue(Result(Nil, "fail to write to output file"))
                          /\ UNCHANGED fileOut
                     ELSE /\ fileOut' = IF hasFile THEN Append(fileOut, ff.text)
                                        ELSE fileOut
                          /\ Seq_Continue(Result(Nil, "nil"))
    /\ UNCHANGED <<waitMark, lastWait>>
    /\ UNCHANGED <<connVars, loopVars, sendVars, closeVars, histVars>>

\* CommandExit.Execute
CommandExit_Execute ==
    /\ drvPc = "run"
    /\ cmd.kind = "Exit"
    /\ Seq_Continue(Result(Nil, "interrupted"))
    /\ UNCHANGED <<output, fileOut, waitMark, lastWait>>
    /\ UNCHANGED <<connVars, loopVars, sendVars, closeVars, histVars>>

\* the result of an Execute goes to the loops of CommandSequence.Execute, or
\* back to a caller that called Execute itself
Deliver(r) ==
    IF drvPc = "direct"
      THEN UNCHANGED <<drvPc, subCommands, seqIdx, cmd, seqErr, hasFile, execLog,
                       facVars>>
      ELSE Seq_Continue(r)

\* Wait_Timeout that takes a pending message off the stream and drops it
Wait_Timeout_Drops(timeout) ==
    /\ timeout # 0
    /\ Messages' = IF Messages # <<>> THEN Tail(Messages) ELSE Messages
    /\ UNCHANGED consumed
    /\ waitMark' = [idx |-> Len(consumed) + 1, late |-> Len(readLog) = Len(consumed)]
    /\ lastWait' = [out |-> "timeout", data |-> NoData, mark |-> waitMark.idx,
                    late |-> waitMark.late, timeout |-> timeout,
                    closedAt |-> msgClosed, buffered |-> Len(Messages)]
    /\ Deliver(Result(Nil, "timeout"))

\* case <-time.After(c.timeout): return nil, fmt.Errorf("timeout"). The select
\* takes the timer only while the receive is not ready: the timer has not
\* expired when Execute is entered, and a message or a close that is already
\* there is taken at once
Wait_Timeout(timeout) ==
    /\ timeout # 0
    /\ Messages = <<>>
    /\ ~msgClosed
    /\ UNCHANGED <<Messages, consumed>>
    /\ waitMark' = [idx |-> Len(consumed) + 1, late |-> Len(readLog) = Len(consumed)]
    /\ lastWait' = [out |-> "timeout", data |-> NoData, mark |-> waitMark.idx,
                    late |-> waitMark.late, timeout |-> timeout,
                    closedAt |-> msgClosed, buffered |-> Len(Messages)]
    /\ Deliver(Result(Nil, "timeout"))

\* msg, ok := <-exCtx.Connection().Messages() with ok = true
Wait_Message(timeout) ==
    /\ Messages # <<>>
    /\ Messages' = Tail(Messages)
    /\ consumed' = Append(consumed, Head(Messages).Data)
    /\ waitMark' = [idx |-> 0, late |-> FALSE]
    /\ lastWait' = [out |-> "msg", data |-> Head(Messages).Data, mark |-> waitMark.idx,
                    late |-> waitMark.late, timeout |-> timeout,
                    closedAt |-> msgClosed, buffered |-> Len(Messages)]
    /\ Deliver(Result(NewCommandPrintMsg(Head(Messages)), "nil"))

\* Wait_Closed that lets the timer win over the closed stream
Wait_Closed_TimerWins(timeout) ==
    /\ Messages = <<>>
    /\ msgClosed
    /\ UNCHANGED <<Messages, consumed>>
    /\ waitMark' = [idx |-> 0, late |-> FALSE]
    /\ lastWait' = [out |-> "closed", data |-> NoData, mark |-> waitMark.idx,
                    late |-> waitMark.late, timeout |-> timeout,
                    closedAt |-> msgClosed, buffered |-> Len(Messages)]
    /\ Deliver(Result(Nil, IF timeout # 0 THEN "timeout" ELSE "connection closed"))

\* msg, ok := <-exCtx.Connection().Messages() with ok = false
Wait_Closed(timeout) ==
    /\ Messages = <<>>
    /\ msgClosed
    /\ UNCHANGED <<Messages, consumed>>
    /\ waitMark' = [idx |-> 0, late |-> FALSE]
    /\ lastWait' = [out |-> "closed", data |-> NoData, mark |-> waitMark.idx,
                    late |-> waitMark.late, timeout |-> timeout,
                    closedAt |-> msgClosed, buffered |-> Len(Messages)]
    /\ Deliver(Result(Nil, "connection closed"))

\* CommandWaitForResp{timeout}.Execute
CommandWaitForResp_Execute(timeout) ==
    /\ \/ Wait_Message(timeout)
       \/ Wait_Closed(timeout)
       \/ Wait_Timeout(timeout)
    /\ UNCHANGED <<output, fileOut, readLog>>
    /\ UNCHANGED <<isClosed, wsState, wsCloses, peerState, peerEcho, peerSent, wire,
                   msgClosed, msgCloses, waitGroup, panicked>>
    /\ UNCHANGED <<loopVars, sendVars, closeVars>>

\* cmd.Execute(exCtx) in CommandSequence.Execute, cmd a CommandWaitForResp
Seq_WaitForResp ==
    /\ drvPc = "run"
    /\ cmd.kind = "WaitForResp"
    /\ CommandWaitForResp_Execute(cmd.timeout)

\* a caller runs NewCommandWaitForResp(timeout).Execute(exCtx) itself
Call_WaitForResp(timeout) ==
    /\ drvPc = "direct"
    /\ CommandWaitForResp_Execute(timeout)

\* ------------------------------------------------------------ command lines
\* A string is modelled by the sequence of its words, the parts between
\* single spaces; a word may be empty: "" is <<"">>, "send " is <<"send", "">>
Keywords == {"exit", "edit", "editcmd", "send", "print", "wait", "repeat", "sleep"}
Numerals == {"0", "1", "3", "-1"}
Tokens == {""} \cup Keywords \cup Numerals \cup {"greet", "foo", "x", "Response"}

Lines == UNION {[1..n -> Tokens] : n \in 1..MaxTokens}

EmptyString == <<"">>

\* strings.SplitN(str, " ", PartsNumber)
PartsNumber == 2

SplitN(str) ==
    IF Len(str) < PartsNumber THEN <<str>> ELSE <<<<Head(str)>>, Tail(str)>>

\* strings.Fields(str)
Fields(str) == SelectSeq(str, LAMBDA w : w # "")

\* strconv.Atoi(str)
Atoi(str) ==
    IF Len(str) = 1 /\ str[1] \in Numerals
      THEN [n |-> CASE str[1] = "0" -> 0
                    [] str[1] = "1" -> 1
                    [] str[1] = "3" -> 3
                    [] str[1] = "-1" -> 0 - 1,
            err |-> FALSE]
      ELSE [n |-> 0, err |-> TRUE]

\* error values: the typed errors of package command, and the untyped ones
\* made by fmt.Errorf
NoErr == [kind |-> "nil", text |-> NoData, arg |-> <<>>]

Err(kind, arg) == [kind |-> kind, text |-> NoData, arg |-> arg]

Errorf(text, arg) == [kind |-> "errorString", text |-> text, arg |-> arg]

\* the commands the old package does not have
NewCommandEdit(content) ==
    [kind |-> "Edit", request |-> content, timeout |-> 0, msg |-> NoMsg]

NewCommandCmdEdit ==
    [kind |-> "CmdEdit", request |-> NoData, timeout |-> 0, msg |-> NoMsg]

NewRepeatCommand(times, subCommand) ==
    [kind |-> "Repeat", times |-> times, sub |-> subCommand]

NewSleepCommand(sec) == [kind |-> "Sleep", duration |-> sec]

\* what a call returns: (Executer, error), or the runtime panic that ended it
Created(exec, err) == [exec |-> exec, err |-> err, panic |-> "none"]

Panic(what) == [exec |-> Nil, err |-> NoErr, panic |-> what]

NotCalled == [exec |-> Nil, err |-> NoErr, panic |-> "not called"]

\* ------------------------------------------------------------ macro.Repo
NoRepo == [macro |-> <<>>, domains |-> <<>>, nil |-> TRUE]

\* macro.New(domains)
New(domains) == [macro |-> <<>>, domains |-> domains, nil |-> FALSE]

Names(m) == DOMAIN m.macro

\* command.Templates.GetExecuter(args): the template with its arguments
Templates_GetExecuter(template, args) ==
    Created([kind |-> "Macro", template |-> template, args |-> args], NoErr)

\* Repo.Get(name, argString)
Repo_Get(m, name, argString) ==
    IF name \in Names(m)
      THEN Templates_GetExecuter(m.macro[name], Fields(argString))
      ELSE Created(Nil, Errorf("unknown command", <<name>>))

\* ------------------------------------------------------------ Factory.Create
\* the case "repeat" test on the repeat count that lets zero through
RepeatTimesInvalid_AllowsZero(a) == a.err \/ a.n < 0

\* err != nil || times <= 0
RepeatTimesInvalid(a) == a.err \/ a.n <= 0

\* the case "wait" of Create, with an absent argument taken as one second
Create_Wait_DefaultOne(parts) ==
    IF Len(parts) > 1
      THEN LET a == Atoi(parts[2])
           IN  IF a.err \/ a.n < 0
                 THEN Created(Nil, Err("ErrInvalidTimeout", parts[2]))
                 ELSE Created(NewCommandWaitForResp(a.n), NoErr)
      ELSE Created(NewCommandWaitForResp(1), NoErr)

\* the case "wait" of Create; timeouts are in seconds
Create_Wait(parts) ==
    IF Len(parts) > 1
      THEN LET a == Atoi(parts[2])
           IN  IF a.err \/ a.n < 0
                 THEN Created(Nil, Err("ErrInvalidTimeout", parts[2]))
                 ELSE Created(NewCommandWaitForResp(a.n), NoErr)
      ELSE Created(NewCommandWaitForResp(0), NoErr)

\* the case "print" of Create
Create_Print(line, parts) ==
    IF Len(parts) = 1
      THEN Created(Nil, Err("ErrEmptyRequest", <<>>))
      ELSE LET args == SplitN(parts[2])
           IN  IF Len(args) < PartsNumber
                 THEN Created(Nil, Errorf("not enough arguments for print command", line))
               ELSE IF args[1] \notin {<<"Request">>, <<"Response">>}
                 THEN Created(Nil, Errorf("invalid message type", parts[1]))
               ELSE Created(NewCommandPrintMsg(Message(args[1][1], args[2])), NoErr)

\* the case "sleep" of Create
Create_Sleep(line, parts) ==
    IF Len(parts) < PartsNumber
      THEN Created(Nil, Errorf("not enough arguments for sleep command", line))
      ELSE LET a == Atoi(parts[2])
           IN  IF a.err \/ a.n < 0
                 THEN Created(Nil, Errorf("invalid sleep duration", parts[2]))
                 ELSE Created(NewSleepCommand(a.n), NoErr)

\* the default case of Create
Create_Default(macro, parts) ==
    LET args == IF Len(parts) > 1 THEN parts[2] ELSE EmptyString
    IN  IF ~macro.nil
          THEN Repo_Get(macro, parts[1][1], args)
          ELSE Created(Nil, Err("ErrUnknownCommand", parts[1]))

RECURSIVE Create(_, _)
\* Factory{macro}.Create(line)
Create(line, macro) ==
    IF line = EmptyString
      THEN Created(Nil, Err("ErrEmptyCommand", <<>>))
      ELSE
        LET parts == SplitN(line)
            keyword == parts[1][1]
        IN  CASE keyword = "exit" -> Created(NewCommandExit, NoErr)
              [] keyword = "edit" ->
                   Created(NewCommandEdit(IF Len(parts) > 1 THEN parts[2] ELSE EmptyString),
                           NoErr)
              [] keyword = "editcmd" -> Created(NewCommandCmdEdit, NoErr)
              [] keyword = "send" ->
                   IF Len(parts) = 1
                     THEN Created(Nil, Err("ErrEmptyRequest", <<>>))
                     ELSE Created(NewCommandSend(parts[2]), NoErr)
              [] keyword = "print" -> Create_Print(line, parts)
              [] keyword = "wait" -> Create_Wait(parts)
              [] keyword = "repeat" ->
                   IF Len(parts) < PartsNumber
                     THEN Created(Nil, Errorf("not enough arguments for repeat command", line))
                     ELSE
                       LET repeatParts == SplitN(parts[2])
                           a == Atoi(repeatParts[1])
                       IN  \* the second length test is on parts again
                           IF Len(parts) < PartsNumber
                             THEN Created(Nil, Errorf("not enough arguments for repeat command", line))
                           ELSE IF RepeatTimesInvalid(a)
                             THEN Created(Nil, Errorf("invalid repeat times", repeatParts[1]))
                           ELSE IF Len(repeatParts) < 2
                             THEN Panic("index out of range [1] with length 1")
                           ELSE LET sub == Create(repeatParts[2], macro)
                                IN  IF sub.panic # "none" THEN sub
                                    ELSE IF sub.err # NoErr THEN Created(Nil, sub.err)
                                    ELSE Created(NewRepeatCommand(a.n, sub.exec), NoErr)
              [] keyword = "sleep" -> Create_Sleep(line, parts)
              [] OTHER -> Create_Default(macro, parts)

\* a Repeat command that has not been run
RepeatInit == [pc |-> "off", left |-> 0, cmd |-> Nil, log |-> <<>>, err |-> "nil"]

\* a caller runs NewFactory(macro).Create(line)
Factory_Create(line, macro) ==
    /\ facOp = "none"
    /\ fac' = [op |-> "Create", raw |-> line, macro |-> macro, edErr |-> NoErr,
               created |-> Create(line, macro), rpt |-> RepeatInit]
    /\ UNCHANGED mac
    /\ UNCHANGED <<connVars, loopVars, sendVars, closeVars, histVars, drvVars>>

\* ------------------------------------------------------------ RepeatCommand
\* what one Execute of a command can return, whatever the connection, the
\* editor and the formatter do
Outcomes(c) ==
    CASE c.kind = "Exit" -> {Result(Nil, "interrupted")}
      [] c.kind = "WaitForResp" ->
           {Result(NewCommandPrintMsg(Message("Response", d)), "nil") : d \in Data}
               \cup {Result(Nil, "connection closed")}
               \cup (IF c.timeout # 0 THEN {Result(Nil, "timeout")} ELSE {})
      [] c.kind = "Send" ->
           {Result(NewCommandPrintMsg(Message("Request", c.request)), "nil"),
            Result(Nil, "fail to send request")}
      [] c.kind = "Edit" ->
           {Result(NewCommandSend(c.request), "nil"), Result(Nil, "nil"),
            Result(Nil, "editor error")}
      [] c.kind = "PrintMsg" -> {Result(Nil, "nil")}
      [] OTHER -> {Result(Nil, "nil"), Result(Nil, "failed")}

\* RepeatCommand.Execute entered: the first of its runs of the sub-command
RepeatCommand_Execute ==
    /\ facOp = "Create"
    /\ created.panic = "none"
    /\ created.exec.kind = "Repeat"
    /\ rpt.pc = "off"
    /\ fac' = [fac EXCEPT !.rpt = [rpt EXCEPT !.pc = "run", !.left = created.exec.times,
                                              !.cmd = created.exec.sub]]
    /\ UNCHANGED mac
    /\ UNCHANGED <<connVars, loopVars, sendVars, closeVars, histVars, drvVars>>

\* one Execute inside RepeatCommand.Execute: an error ends the Repeat, a next
\* command is run in turn, and the end of a chain starts the next run
Repeat_Step(r) ==
    /\ facOp = "Create"
    /\ rpt.pc = "run"
    /\ r \in Outcomes(rpt.cmd)
    /\ LET entry == [cmd |-> rpt.cmd, next |-> r.next, err |-> r.err]
           log == Append(rpt.log, entry)
           after == IF r.err # "nil"
                      THEN [pc |-> "done", left |-> rpt.left, cmd |-> Nil, log |-> log,
                            err |-> r.err]
                    ELSE IF r.next # Nil
                      THEN [rpt EXCEPT !.cmd = r.next, !.log = log]
                    ELSE IF rpt.left > 1
                      THEN [rpt EXCEPT !.left = rpt.left - 1, !.cmd = created.exec.sub,
                                       !.log = log]
                    ELSE [pc |-> "done", left |-> 0, cmd |-> Nil, log |-> log,
                          err |-> "nil"]
       IN  fac' = [fac EXCEPT !.rpt = after]
    /\ UNCHANGED mac
    /\ UNCHANGED <<connVars, loopVars, sendVars, closeVars, histVars, drvVars>>

\* ------------------------------------------------------------ CommandCmdEdit
\* Macro.Get(name) of the old package
Macro_Get(macro, name) == Repo_Get(macro, name, EmptyString)

\* CommandFactory(line, macro)
CommandFactory(line, macro) ==
    IF line = EmptyString
      THEN Created(Nil, Errorf("empty command", <<>>))
      ELSE
        LET parts == SplitN(line)
            keyword == parts[1][1]
        IN  CASE keyword = "exit" -> Created(NewCommandExit, NoErr)
              [] keyword = "edit" ->
                   Created(NewCommandEdit(IF Len(parts) > 1 THEN parts[2] ELSE EmptyString),
                           NoErr)
              [] keyword = "send" ->
                   IF Len(parts) = 1
                     THEN Created(Nil, Errorf("empty request", <<>>))
                     ELSE Created(NewCommandSend(parts[2]), NoErr)
              [] keyword = "wait" ->
                   IF Len(parts) > 1
                     THEN LET a == Atoi(parts[2])
                          IN  IF a.err \/ a.n < 0
                                THEN Created(Nil, Errorf("invalid timeout", parts[2]))
                                ELSE Created(NewCommandWaitForResp(a.n), NoErr)
                     ELSE Created(NewCommandWaitForResp(0), NoErr)
              [] OTHER ->
                   IF ~macro.nil
                     THEN Macro_Get(macro, keyword)
                     ELSE Created(Nil, Errorf("unknown command", parts[1]))

\* an error of the line editor (the user aborted, the key stream ended)
EditorErr == Err("editor", <<>>)

Prompt == [arrow |-> "prompt", text |-> ":"]

ErrorLine(err) == [arrow |-> "error", text |-> err]

\* CommandCmdEdit.Execute after the editor returned, with the error of the
\* parser returned to the caller
CmdEdit_Result_Propagates(rawCmd, err, macro) ==
    IF err # NoErr
      THEN [result |-> Created(Nil, err), printed |-> <<>>]
      ELSE LET p == CommandFactory(rawCmd, macro)
           IN  IF p.err # NoErr
                 THEN [result |-> Created(Nil, p.err), printed |-> <<ErrorLine(p.err)>>]
                 ELSE [result |-> Created(p.exec, NoErr), printed |-> <<>>]

\* CommandCmdEdit.Execute after the editor returned (rawCmd, err): what it
\* returns and what it prints after the prompt
CmdEdit_Result(rawCmd, err, macro) ==
    IF err # NoErr
      THEN [result |-> Created(Nil, err), printed |-> <<>>]
      ELSE LET p == CommandFactory(rawCmd, macro)
           IN  IF p.err # NoErr
                 THEN [result |-> Created(Nil, NoErr), printed |-> <<ErrorLine(p.err)>>]
                 ELSE [result |-> Created(p.exec, NoErr), printed |-> <<>>]

\* a caller runs NewCommandCmdEdit().Execute(exCtx); the editor returns
\* (line, err) and exCtx.Macro() is macro. The cursor and line-clear codes
\* written around the prompt are left out of output
CommandCmdEdit_Execute(line, err, macro) ==
    /\ facOp = "none"
    /\ LET r == CmdEdit_Result(line, err, macro)
       IN  /\ fac' = [op |-> "CmdEdit", raw |-> line, macro |-> macro, edErr |-> err,
                      created |-> r.result, rpt |-> RepeatInit]
           /\ output' = output \o <<Prompt>> \o r.printed
    /\ UNCHANGED mac
    /\ UNCHANGED <<drvPc, subCommands, seqIdx, cmd, seqErr, hasFile, fileOut, execLog,
                   waitMark, lastWait>>
    /\ UNCHANGED <<connVars, loopVars, sendVars, closeVars, histVars>>

\* a caller runs the WaitForResp command that Create returned
Call_Created ==
    /\ drvPc = "direct"
    /\ facOp = "Create"
    /\ created.panic = "none"
    /\ created.exec.kind = "WaitForResp"
    /\ CommandWaitForResp_Execute(created.exec.timeout)

\* the lines of the wait command
WaitLines == {<<"wait">>, <<"wait", "0">>, <<"wait", "1">>, <<"wait", "-1">>,
              <<"wait", "x">>}

\* ------------------------------------------------------------ package macro
\* command.NewMacro(rawCommands): the templates of the steps, or the error
\* of a step that is no template
BadStep == "{{"

NewMacro(rawCommands) ==
    IF \E i \in 1..Len(rawCommands) : rawCommands[i] = BadStep
      THEN [templates |-> <<>>, err |-> Errorf("fail to parse template", <<BadStep>>)]
      ELSE [templates |-> [steps |-> rawCommands], err |-> NoErr]

\* the map of m with name set to template
WithMacro(m, name, template) ==
    [m EXCEPT !.macro = [n \in Names(m) \cup {name} |->
                            IF n = name THEN template ELSE m.macro[n]]]

\* AddCommands that replaces a macro of the same name
AddCommands_Overwrites(m, name, rawCommands) ==
    IF Len(rawCommands) = 0
      THEN [repo |-> m, err |-> Errorf("empty macro", <<name>>)]
      ELSE LET t == NewMacro(rawCommands)
           IN  IF t.err # NoErr
                 THEN [repo |-> m, err |-> t.err]
                 ELSE [repo |-> WithMacro(m, name, t.templates), err |-> NoErr]

\* m.AddCommands(name, rawCommands): the repository after the call, and the error
AddCommands(m, name, rawCommands) ==
    IF name \in Names(m)
      THEN [repo |-> m, err |-> Errorf("duplicate macro", <<name>>)]
    ELSE IF Len(rawCommands) = 0
      THEN [repo |-> m, err |-> Errorf("empty macro", <<name>>)]
    ELSE LET t == NewMacro(rawCommands)
         IN  IF t.err # NoErr
               THEN [repo |-> m, err |-> t.err]
               ELSE [repo |-> WithMacro(m, name, t.templates), err |-> NoErr]

\* the orders in which a range over a map with the keys S can visit them
Orders(S) ==
    {o \in [1..Cardinality(S) -> S] : \A i, j \in 1..Cardinality(S) : o[i] = o[j] => i = j}

RECURSIVE MergeFrom(_, _, _)
\* the loop of m.merge(src), visiting the names of src in the given order
MergeFrom(m, src, order) ==
    IF order = <<>>
      THEN [repo |-> m, err |-> NoErr]
    ELSE IF Head(order) \in Names(m)
      THEN [repo |-> m, err |-> Errorf("duplicate macro", <<Head(order)>>)]
    ELSE MergeFrom(WithMacro(m, Head(order), src.macro[Head(order)]), src, Tail(order))

\* strings.HasSuffix(str, suffix), on strings as sequences of characters
HasSuffix(str, suffix) ==
    /\ Len(suffix) <= Len(str)
    /\ SubSeq(str, Len(str) - Len(suffix) + 1, Len(str)) = suffix

\* the hasDomain loop that takes a source without domains as matching
HasDomain_EmptyMatches(domain, fileDomains) ==
    \/ fileDomains = <<>>
    \/ \E i \in 1..Len(fileDomains) : HasSuffix(domain, fileDomains[i])

\* the hasDomain loop of LoadMacroForDomain
HasDomain(domain, fileDomains) ==
    \E i \in 1..Len(fileDomains) : HasSuffix(domain, fileDomains[i])

\* a macro source: the config decoded from it, or a text that does not decode
Source(version, macro, domains) ==
    [Version |-> version, Macro |-> macro, Domains |-> domains, malformed |-> FALSE]

Malformed == [Version |-> "", Macro |-> <<>>, Domains |-> <<>>, malformed |-> TRUE]

RECURSIVE AddAll(_, _, _, _)
\* the range over cfg.Macro of parseConfig, visiting the names in the given order
AddAll(m, src, order, calls) ==
    IF order = <<>>
      THEN [repo |-> m, err |-> NoErr, calls |-> calls]
      ELSE LET name == Head(order)
               r == AddCommands(m, name, src.Macro[name])
               c == Append(calls, [name |-> name, steps |-> src.Macro[name],
                                   err |-> r.err, before |-> m, after |-> r.repo])
           IN  IF r.err # NoErr
                 THEN [repo |-> NoRepo,
                       err |-> Errorf("fail to add macro", <<r.err.text>> \o r.err.arg),
                       calls |-> c]
                 ELSE AddAll(r.repo, src, Tail(order), c)

\* parseConfig that looks at the version after the macros are added
ParseConfig_VersionLast(src, order) ==
    IF src.malformed
      THEN [repo |-> NoRepo, err |-> Errorf("yaml", <<>>), calls |-> <<>>]
      ELSE LET r == AddAll(New(src.Domains), src, order, <<>>)
           IN  IF r.err # NoErr THEN r
               ELSE IF src.Version # "1"
                 THEN [repo |-> NoRepo,
                       err |-> Errorf("unsupported macro version", <<src.Version>>),
                       calls |-> r.calls]
               ELSE r

\* parseConfig(src): the Repo and the error returned, and the AddCommands
\* calls it made
ParseConfig(src, order) ==
    IF src.malformed
      THEN [repo |-> NoRepo, err |-> Errorf("yaml", <<>>), calls |-> <<>>]
    ELSE IF src.Version # "1"
      THEN [repo |-> NoRepo, err |-> Errorf("unsupported macro version", <<src.Version>>),
            calls |-> <<>>]
    ELSE AddAll(New(src.Domains), src, order, <<>>)

\* a caller runs repo.AddCommands(name, rawCommands)
Repo_AddCommands(name, rawCommands) ==
    /\ macOp \in {"none", "add"}
    /\ LET m == IF macOp = "none" THEN New(<<>>) ELSE repo
           calls == IF macOp = "none" THEN <<>> ELSE addLog
           r == AddCommands(m, name, rawCommands)
           call == [name |-> name, steps |-> rawCommands, err |-> r.err,
                    before |-> m, after |-> r.repo]
       IN  /\ Len(calls) < MaxAdds
           /\ mac' = [op |-> "add", repo |-> r.repo, addLog |-> Append(calls, call)]
    /\ UNCHANGED fac
    /\ UNCHANGED <<connVars, loopVars, sendVars, closeVars, histVars, drvVars>>

\* a caller runs parseConfig(src); order is the order of the range over
\* cfg.Macro
Call_parseConfig(src, order) ==
    /\ macOp = "none"
    /\ LET r == ParseConfig(src, order)
       IN  mac' = [op |-> "parse", cfgIn |-> src,
                   parsed |-> [repo |-> r.repo, err |-> r.err], addLog |-> r.calls]
    /\ UNCHANGED fac
    /\ UNCHANGED <<connVars, loopVars, sendVars, closeVars, histVars, drvVars>>

\* ------------------------------------------------------------ LoadMacroForDomain
\* an entry of the macro directory: a .yaml or .yml file with its content, or
\* an entry the loop skips (a directory, a file of another kind)
YamlFile(src) == [yaml |-> TRUE, src |-> src]

OtherEntry == [yaml |-> FALSE, src |-> Malformed]

MergeInit ==
    [called |-> FALSE, before |-> NoRepo, src |-> NoRepo, after |-> NoRepo, err |-> NoErr]

\* a caller runs LoadMacroForDomain(macroDir, domain), files the entries of
\* macroDir: up to the range over the files
LoadMacroForDomain(files, domain) ==
    /\ macOp = "none"
    /\ mac' = [op |-> "load",
               load |-> [pc |-> "loop", files |-> files, domain |-> domain, idx |-> 1,
                         macro |-> NoRepo, err |-> NoErr, applied |-> {}],
               merge |-> MergeInit, addLog |-> <<>>]
    /\ UNCHANGED fac
    /\ UNCHANGED <<connVars, loopVars, sendVars, closeVars, histVars, drvVars>>

\* LoadMacroForDomain: the loop leaves this file out (continue)
Load_Skip == [load |-> [load EXCEPT !.idx = load.idx + 1], merge |-> merge]

\* one iteration of the range over the files, from the hasDomain loop on: the
\* load and the latest merge after it; mo gives the order of the range over
\* the macros of the file in merge
Load_Apply(fileMacro, mo) ==
    IF ~HasDomain(load.domain, fileMacro.domains)
      THEN Load_Skip
    ELSE IF load.macro.nil
      THEN [load |-> [load EXCEPT !.idx = load.idx + 1, !.macro = fileMacro,
                                  !.applied = load.applied \cup {load.idx}],
            merge |-> merge]
    ELSE LET m == MergeFrom(load.macro, fileMacro, mo)
         IN  [load |-> IF m.err # NoErr
                         THEN [load EXCEPT !.pc = "done", !.macro = NoRepo,
                                   !.err = Errorf("fail to loading macro from file",
                                                  <<m.err.text>> \o m.err.arg)]
                         ELSE [load EXCEPT !.idx = load.idx + 1, !.macro = m.repo,
                                   !.applied = load.applied \cup {load.idx}],
              merge |-> [called |-> TRUE, before |-> load.macro, src |-> fileMacro,
                         after |-> m.repo, err |-> m.err]]

\* one iteration of the range over the files of LoadMacroForDomain; po gives
\* the order of the range over cfg.Macro in parseConfig
Load_File ==
    /\ macOp = "load"
    /\ load.pc = "loop"
    /\ load.idx <= Len(load.files)
    /\ LET file == load.files[load.idx]
       IN  IF ~file.yaml
             THEN mac' = [mac EXCEPT !.load = Load_Skip.load]
             ELSE \E po \in Orders(DOMAIN file.src.Macro) :
                    LET r == ParseConfig(file.src, po)
                    IN  IF r.err # NoErr
                          THEN mac' = [mac EXCEPT
                                         !.addLog = addLog \o r.calls,
                                         !.load = [load EXCEPT !.pc = "done",
                                                               !.macro = NoRepo,
                                                               !.err = r.err]]
                          ELSE \E mo \in Orders(Names(r.repo)) :
                                 LET a == Load_Apply(r.repo, mo)
                                 IN  mac' = [mac EXCEPT !.addLog = addLog \o r.calls,
                                                        !.load = a.load,
                                                        !.merge = a.merge]
    /\ UNCHANGED fac
    /\ UNCHANGED <<connVars, loopVars, sendVars, closeVars, histVars, drvVars>>

\* return macro, nil
Load_Return ==
    /\ macOp = "load"
    /\ load.pc = "loop"
    /\ load.idx > Len(load.files)
    /\ mac' = [mac EXCEPT !.load = [load EXCEPT !.pc = "done"]]
    /\ UNCHANGED fac
    /\ UNCHANGED <<connVars, loopVars, sendVars, closeVars, histVars, drvVars>>

\* ------------------------------------------------------------ specification
DriverInit(pc) ==
    /\ drvPc = pc
    /\ subCommands = <<>>
    /\ seqIdx = 0
    /\ cmd = Nil
    /\ seqErr = "nil"
    /\ output = <<>>
    /\ fileOut = <<>>
    /\ execLog = <<>>
    /\ waitMark = [idx |-> 0, late |-> FALSE]
    /\ lastWait = [out |-> "none", data |-> NoData, mark |-> 0, late |-> FALSE,
                   timeout |-> 0, closedAt |-> FALSE, buffered |-> 0]

FactoryInit ==
    /\ fac = [op |-> "none"]
    /\ mac = [op |-> "none"]

\* the Connection used directly: Send, Close and receives from Messages
Init ==
    /\ ConnInit
    /\ peerEcho = FALSE
    /\ hasFile = FALSE
    /\ DriverInit("off")
    /\ FactoryInit

Next ==
    \/ \E d \in Data : PeerSend(d)
    \/ \E k \in {"eof", "err"} : PeerFail(k)
    \/ handleResponses
    \/ \E s \in Senders, d \in Data : SendCall(s, d)
    \/ \E s \in Senders : Send_Write(s)
    \/ \E s \in Senders : Send_Done(s)
    \/ \E c \in Closers : Close(c)
    \/ Receive

Spec == Init /\ [][Next]_vars

\* The Go scheduler runs every runnable goroutine: the receive loop, a Send
\* call in progress and a Close call in progress each take their next step.
\* Nothing obliges a caller to start a Send or a Close, the peer to send, or
\* a consumer to receive from Messages.
Fairness ==
    /\ WF_vars(handleResponses)
    /\ \A s \in Senders : WF_vars(Send_Write(s) \/ Send_Done(s))
    /\ \A c \in Closers : WF_vars(Close_Store(c) \/ Close_WsClose(c))

FairSpec == Spec /\ Fairness

\* the Connection driven by commands: a caller runs command sequences
CmdInit ==
    /\ ConnInit
    /\ peerEcho \in BOOLEAN
    /\ hasFile \in BOOLEAN
    /\ DriverInit("idle")
    /\ FactoryInit

CmdNext ==
    \/ \E d \in Data : PeerSend(d)
    \/ \E k \in {"eof", "err"} : PeerFail(k)
    \/ handleResponses
    \/ \E subs \in Programs : CommandSequence_Execute(subs)
    \/ CommandSend_Execute
    \/ Send_Write(Driver)
    \/ Send_Done(Driver)
    \/ CommandPrintMsg_Execute
    \/ CommandExit_Execute
    \/ Seq_WaitForResp

CmdSpec == CmdInit /\ [][CmdNext]_vars

\* the Connection driven by Edit commands: a caller runs sequences of them
EditPrograms == UNION {[1..n -> {CommandEditEmpty}] : n \in 1..MaxSeqLen}

EditNext ==
    \/ \E d \in Data : PeerSend(d)
    \/ \E k \in {"eof", "err"} : PeerFail(k)
    \/ handleResponses
    \/ \E subs \in EditPrograms : CommandSequence_Execute(subs)
    \/ \E req \in EditorTexts, err \in EditorErrs : CommandEdit_Execute(req, err)
    \/ CommandEdit_Return
    \/ CommandSend_Execute
    \/ Send_Write(Driver)
    \/ Send_Done(Driver)
    \/ CommandPrintMsg_Execute

EditSpec == CmdInit /\ [][EditNext]_vars

\* the Connection read by a caller that runs WaitForResp commands one after
\* the other
WaitInit ==
    /\ ConnInit
    /\ peerEcho = FALSE
    /\ hasFile = FALSE
    /\ DriverInit("direct")
    /\ FactoryInit

WaitNext ==
    \/ \E d \in Data : PeerSend(d)
    \/ \E k \in {"eof", "err"} : PeerFail(k)
    \/ handleResponses
    \/ \E t \in Timeouts : Call_WaitForResp(t)
    \/ \E line \in WaitLines : Factory_Create(line, NoRepo)
    \/ Call_Created

WaitSpec == WaitInit /\ [][WaitNext]_vars

\* a repository with one macro, as NewFactory is given
GreetRepo == [macro |-> [n \in {"greet"} |-> [steps |-> <<"exit">>]], domains |-> <<>>,
              nil |-> FALSE]

\* the parser: one line is parsed, and a Repeat command it gave is run
ParseInit ==
    /\ ConnInit
    /\ peerEcho = FALSE
    /\ hasFile = FALSE
    /\ DriverInit("off")
    /\ FactoryInit

ParseNext ==
    \/ /\ facOp = "none"
       /\ \E line \in Lines, macro \in {NoRepo, GreetRepo} : Factory_Create(line, macro)
    \/ /\ facOp = "none"
       /\ \E line \in Lines, err \in {NoErr, EditorErr}, macro \in {NoRepo, GreetRepo} :
              CommandCmdEdit_Execute(line, err, macro)
    \/ RepeatCommand_Execute
    \/ /\ facOp = "Create"
       /\ \E r \in Outcomes(rpt.cmd) : Repeat_Step(r)

ParseSpec == ParseInit /\ [][ParseNext]_vars

\* the inputs of package macro
MacroNames == {"m1", "m2"}

StepLists == {<<>>, <<"s1">>, <<"s2">>, <<BadStep>>}

Maps(S) == UNION {[N -> S] : N \in SUBSET MacroNames}

\* the target domain, and lists of domain suffixes
TargetDomain == <<"a", "b">>

DomainLists == {<<>>, <<<<"b">>>>, <<<<"a">>>>, <<<<"a">>, <<"b">>>>, <<<<>>>>}

Sources ==
    {Source(v, m, d) : v \in {"1", "2", ""}, m \in Maps(StepLists), d \in {<<>>, <<<<"b">>>>}}
        \cup {Malformed}

LoadFiles ==
    {YamlFile(Source("1", m, d)) : m \in Maps({<<"s1">>, <<"s2">>}), d \in DomainLists}
        \cup {YamlFile(Malformed), YamlFile(Source("2", <<>>, <<<<"b">>>>)), OtherEntry}

FileLists == UNION {[1..n -> LoadFiles] : n \in 0..MaxFiles}

\* package macro: AddCommands calls on one Repo, or one parseConfig, or one
\* LoadMacroForDomain
MacroInit ==
    /\ ConnInit
    /\ peerEcho = FALSE
    /\ hasFile = FALSE
    /\ DriverInit("off")
    /\ FactoryInit

MacroNext ==
    \/ \E name \in MacroNames, rawCommands \in StepLists : Repo_AddCommands(name, rawCommands)
    \/ /\ macOp = "none"
       /\ \E src \in Sources : \E order \in Orders(DOMAIN src.Macro) :
              Call_parseConfig(src, order)
    \/ /\ macOp = "none"
       /\ \E files \in FileLists : LoadMacroForDomain(files, TargetDomain)
    \/ Load_File
    \/ Load_Return

MacroSpec == MacroInit /\ [][MacroNext]_vars

\* ================================================================ claims
IsPrefix(p, q) == Len(p) <= Len(q) /\ SubSeq(q, 1, Len(p)) = p

\* C1: at the moment the Messages stream is closed no Send call is in
\* progress (none is between waitGroup.Add(1) and waitGroup.Done()).
C1_NoSendInFlightAtClose ==
    [][(~msgClosed /\ msgClosed') => \A s \in SendIds : ~InFlight(s)]_vars

\* C2: the Messages stream is closed at most once, and only after the
\* receive loop has left its read loop.
C2_ClosedOnceAfterLoop ==
    /\ msgCloses <= 1
    /\ panicked # "close of closed channel"
    /\ msgClosed => loopPc \notin {"recv", "check", "publish"}

C2_Witness == msgClosed /\ msgCloses = 1 /\ loopPc = "done"

\* C3: once the Messages stream is closed the receive loop publishes nothing
\* more to it: the buffer never grows and no send on the closed channel is
\* attempted.
C3_NoDeliveryAfterClose ==
    [][msgClosed => /\ Len(Messages') <= Len(Messages)
                    /\ panicked' # "send on closed channel"
                    /\ readLog' = readLog]_vars

C3_Witness == msgClosed /\ readLog # <<>> /\ wire # <<>>

\* C4: once the connection is torn down (Close() was called, or the
\* transport read failed) the Messages stream is eventually closed.
TornDown ==
    \/ \E c \in Closers : closePc[c] # "idle"
    \/ errCause # "none"

C4_TornDownLeadsToClose == TornDown ~> msgClosed

\* C5: two Close() calls made one after the other close the transport
\* exactly once and leave the closed flag set: the second is a no-op.
C5_CloseIdempotent ==
    (~closeOverlap /\ \E c \in Closers : closePc[c] = "done")
        => (isClosed /\ wsCloses = 1 /\ wsState = "closed")

C5_Witness ==
    /\ ~closeOverlap
    /\ Cardinality({c \in Closers : closePc[c] = "done"}) >= 2

\* C6: a read error met after Close() set the closed flag is not reported; a
\* report is printed only when the flag is not set; and a read error caused
\* by Close() releasing the transport always finds the flag set.
C6_SilentAfterClose ==
    [][/\ (loopPc = "check" /\ errCause = "local") => isClosed
       /\ (loopPc = "check" /\ isClosed) => reported' = "none"
       /\ reported' # reported => (loopPc = "check" /\ ~isClosed)]_vars

C6_Witness ==
    /\ loopPc \in {"wait", "close", "done"}
    /\ errCause = "local"
    /\ reported = "none"

Pending ==
    [i \in 1..Len(Messages) |-> Messages[i].Data]
        \o (IF loopPc = "publish" THEN <<held>> ELSE <<>>)

C10_SequenceOrder ==
    /\ \A i \in 1..Len(execLog) :
          LET e == execLog[i] IN
          /\ e.sub \in 1..Len(subCommands)
          /\ i = 1 => (e.sub = 1 /\ e.cmd = subCommands[1])
          /\ i < Len(execLog) =>
                LET n == execLog[i + 1] IN
                /\ e.err = "nil"
                /\ IF e.next # Nil
                     THEN n.sub = e.sub /\ n.cmd = e.next
                     ELSE n.sub = e.sub + 1 /\ n.cmd = subCommands[n.sub]
    /\ drvPc = "returned" =>
          IF subCommands = <<>>
            THEN execLog = <<>> /\ seqErr = "nil"
            ELSE LET l == execLog[Len(execLog)] IN
                 /\ seqErr = l.err
                 /\ l.err = "nil" => (l.next = Nil /\ l.sub = Len(subCommands))
    /\ (drvPc \in {"run", "inSend"} /\ execLog # <<>>) =>
          LET l == execLog[Len(execLog)] IN
          /\ l.err = "nil"
          /\ IF l.next # Nil
               THEN seqIdx = l.sub /\ cmd = l.next
               ELSE seqIdx = l.sub + 1 /\ cmd = subCommands[seqIdx]

C10_Witness ==
    /\ drvPc = "returned"
    /\ Len(subCommands) = 2
    /\ Len(execLog) = 3
    /\ seqErr # "nil"
    /\ execLog[1].next # Nil

\* the completed runs in the log of a Repeat: the Executes that returned
\* neither a next command nor an error
RunsCompleted(log) ==
    Cardinality({i \in 1..Len(log) : log[i].next = Nil /\ log[i].err = "nil"})

\* the log is made of chains of the sub-command, one after the other: each
\* chain starts with the sub-command and goes on with the command returned
InARow(log, sub) ==
    \A i \in 1..Len(log) :
        /\ log[i].cmd = IF i = 1 \/ log[i - 1].next = Nil THEN sub ELSE log[i - 1].next
        /\ (i < Len(log)) => log[i].err = "nil"

\* C11: for a line "repeat N <cmd>" with N a positive integer and <cmd> a
\* line that parses, Create returns a Repeat of N and of the command parsed
\* from <cmd>, and its execution runs the full chain of that command N times
\* in a row (an error of the chain ends it early); for N <= 0 or N not a
\* number Create returns an error and no Executer.
C11_RepeatRunsNTimes ==
    /\ (facOp = "Create" /\ Len(raw) >= 2 /\ raw[1] = "repeat") =>
          LET a == Atoi(<<raw[2]>>)
              sub == IF Len(raw) >= 3 THEN Create(SubSeq(raw, 3, Len(raw)), facMacro)
                                      ELSE NotCalled
          IN  /\ (a.err \/ a.n <= 0) =>
                    created = Created(Nil, Errorf("invalid repeat times", <<raw[2]>>))
              /\ (~a.err /\ a.n > 0 /\ sub.panic = "none" /\ sub.err = NoErr) =>
                    created = Created([kind |-> "Repeat", times |-> a.n, sub |-> sub.exec],
                                      NoErr)
    /\ (facOp = "Create" /\ rpt.pc # "off") =>
          /\ InARow(rpt.log, created.exec.sub)
          /\ RunsCompleted(rpt.log) <= created.exec.times
          /\ (rpt.pc = "done" /\ rpt.err = "nil") =>
                RunsCompleted(rpt.log) = created.exec.times
          /\ (rpt.pc = "done" /\ rpt.err # "nil") =>
                rpt.log[Len(rpt.log)].err = rpt.err

C11_Witness ==
    /\ facOp = "Create"
    /\ raw = <<"repeat", "3", "wait">>
    /\ created.exec.kind = "Repeat"
    /\ rpt.pc = "done"
    /\ rpt.err = "nil"
    /\ Len(rpt.log) = 6

\* C12: Create returns normally for every line: it never ends in a runtime
\* panic, and a line that is empty or lacks a required argument gives an
\* error and no Executer.
C12_CreateNeverCrashes ==
    facOp = "Create" =>
        /\ created.panic = "none"
        /\ raw \in {EmptyString, <<"send">>, <<"print", "Response">>, <<"sleep">>,
                    <<"repeat">>, <<"repeat", "3">>} =>
              (created.err # NoErr /\ created.exec = Nil)

\* C16: for a keyword that is no built-in command Create returns the typed
\* unknown-command error naming the keyword, both when the factory has no
\* macro repository and when its repository has no macro of that name.
C16_SameUnknownKind ==
    (facOp = "Create" /\ raw # EmptyString /\ raw[1] \notin Keywords
        /\ raw[1] \notin Names(facMacro)) =>
        created = Created(Nil, Err("ErrUnknownCommand", <<raw[1]>>))

\* C15: CmdEdit.Execute returns the parsed command and no error when the
\* line typed parses; it returns no command and no error, after printing the
\* parse error, when the line does not parse; it returns the editor's error
\* when the editor fails. An error of the parser is never returned.
C15_CmdEditRecovers ==
    facOp = "CmdEdit" =>
        LET p == CommandFactory(raw, facMacro)
        IN  /\ edErr # NoErr => (created = Created(Nil, edErr) /\ output = <<Prompt>>)
            /\ (edErr = NoErr /\ p.err = NoErr) =>
                  (created = Created(p.exec, NoErr) /\ p.exec # Nil /\ output = <<Prompt>>)
            /\ (edErr = NoErr /\ p.err # NoErr) =>
                  (created = Created(Nil, NoErr) /\ output = <<Prompt, ErrorLine(p.err)>>)
            /\ (edErr = NoErr /\ raw \in {EmptyString, <<"send">>, <<"wait", "x">>,
                                          <<"wait", "-1">>}) =>
                  (created = Created(Nil, NoErr) /\ Len(output) = 2)
            /\ (edErr = NoErr /\ raw = <<"wait", "3">>) =>
                  created = Created(NewCommandWaitForResp(3), NoErr)
            /\ created.panic = "none"

C15_Witness ==
    /\ facOp = "CmdEdit"
    /\ edErr = NoErr
    /\ raw = <<"foo", "x">>
    /\ facMacro = NoRepo
    /\ created = Created(Nil, NoErr)
    /\ output = <<Prompt, ErrorLine(Errorf("unknown command", <<"foo">>))>>

\* the latest Execute in the log of the sequence is a WaitForResp
WaitJustReturned ==
    /\ execLog # <<>>
    /\ execLog[Len(execLog)].cmd.kind = "WaitForResp"

\* C13 as claimed: a WaitForResp executed when the Messages stream is closed
\* returns the "connection closed" error and no next command.
C13_ClosedMeansError ==
    (WaitJustReturned /\ lastWait.closedAt) =>
        LET e == execLog[Len(execLog)]
        IN  e.err = "connection closed" /\ e.next = Nil

\* C13, amended: a WaitForResp executed when the Messages stream is closed
\* and holds no buffered message returns the "connection closed" error and
\* no next command, whatever its timeout; a message still buffered in a
\* closed stream is returned first; the command returned is PrintMsg(m) only
\* for a message m received from the stream.
C13_ClosedAndDrainedMeansError ==
    WaitJustReturned =>
        LET e == execLog[Len(execLog)]
        IN  /\ e.cmd.timeout = lastWait.timeout
            /\ (lastWait.closedAt /\ lastWait.buffered = 0) =>
                  (e.err = "connection closed" /\ e.next = Nil)
            /\ lastWait.buffered > 0 => e.next # Nil
            /\ e.err = "connection closed" => (lastWait.closedAt /\ lastWait.buffered = 0)
            /\ e.next # Nil =>
                  /\ e.err = "nil"
                  /\ lastWait.out = "msg"
                  /\ e.next = NewCommandPrintMsg(Message("Response", lastWait.data))
                  /\ consumed # <<>>
                  /\ consumed[Len(consumed)] = lastWait.data
                  /\ IsPrefix(consumed, readLog)

C13_Witness ==
    /\ WaitJustReturned
    /\ lastWait.closedAt
    /\ lastWait.buffered = 0
    /\ lastWait.timeout # 0
    /\ execLog[Len(execLog)].err = "connection closed"
    /\ consumed # <<>>

\* C14: the lines "wait" and "wait 0" give the same command, a WaitForResp
\* without timeout, and the execution of such a command returns only with a
\* message or with the stream closed, never with the timeout error; "wait"
\* with a negative or non-numeric argument gives the invalid-timeout error
\* and no command.
C14_WaitZeroIsNoTimeout ==
    /\ (facOp = "Create" /\ raw \in {<<"wait">>, <<"wait", "0">>}) =>
          created = Created(NewCommandWaitForResp(0), NoErr)
    /\ (facOp = "Create" /\ raw \in {<<"wait", "-1">>, <<"wait", "x">>}) =>
          created = Created(Nil, Err("ErrInvalidTimeout", <<raw[2]>>))
    /\ (lastWait.out # "none" /\ lastWait.timeout = 0) =>
          /\ lastWait.out \in {"msg", "closed"}
          /\ lastWait.out = "msg" => lastWait.buffered > 0
          /\ lastWait.out = "closed" => (lastWait.closedAt /\ lastWait.buffered = 0)

C14_Witness ==
    /\ facOp = "Create"
    /\ raw = <<"wait">>
    /\ created.exec = NewCommandWaitForResp(0)
    /\ lastWait.timeout = 0
    /\ lastWait.out = "closed"
    /\ consumed # <<>>

\* C17: a merge into a repository that shares a macro name with the source
\* fails with the duplicate-name error and leaves the target as it was.
C17_FailedMergeLeavesTarget ==
    (macOp = "load" /\ merge.called /\ Names(merge.before) \cap Names(merge.src) # {}) =>
        /\ merge.err.text = "duplicate macro"
        /\ merge.after = merge.before

\* C18: LoadMacroForDomain takes the macros of a source only if the target
\* domain ends with one of the suffixes the source declares; a source that
\* declares no domain is never taken.
C18_OnlyMatchingSources ==
    macOp = "load" =>
        /\ \A i \in load.applied :
              LET f == load.files[i]
              IN  /\ f.yaml
                  /\ f.src.Domains # <<>>
                  /\ \E k \in 1..Len(f.src.Domains), n \in 0..Len(load.domain) :
                        f.src.Domains[k] = SubSeq(load.domain, n + 1, Len(load.domain))
        /\ \A name \in Names(load.macro) :
              \E i \in load.applied :
                  /\ name \in DOMAIN load.files[i].src.Macro
                  /\ load.macro.macro[name] = NewMacro(load.files[i].src.Macro[name]).templates
        /\ (load.pc = "done" /\ load.err = NoErr) =>
              \A i \in 1..Len(load.files) :
                  (load.files[i].yaml /\ HasDomain(load.domain, load.files[i].src.Domains))
                      => i \in load.applied

C18_Witness ==
    /\ macOp = "load"
    /\ load.pc = "done"
    /\ load.err = NoErr
    /\ Len(load.files) = 2
    /\ load.files[1].yaml
    /\ load.files[1].src.Domains = <<>>
    /\ DOMAIN load.files[1].src.Macro = {"m1"}
    /\ load.files[2].src.Domains = <<<<"a">>, <<"b">>>>
    /\ load.applied = {2}
    /\ Names(load.macro) = {"m2"}

\* C19: after any AddCommands calls on a repository each name maps to the
\* template of the first successful AddCommands for it; an AddCommands with a
\* name the repository has, or with no steps, returns an error and leaves
\* the repository unchanged.
C19_FirstAddWins ==
    macOp = "add" =>
        /\ repo = addLog[Len(addLog)].after
        /\ \A i \in 1..Len(addLog) :
              LET e == addLog[i]
              IN  /\ e.before = IF i = 1 THEN New(<<>>) ELSE addLog[i - 1].after
                  /\ ((\E j \in 1..(i - 1) : addLog[j].name = e.name /\ addLog[j].err = NoErr)
                          \/ e.steps = <<>>) => e.err # NoErr
                  /\ e.err # NoErr => e.after = e.before
        /\ \A name \in MacroNames :
              LET S == {i \in 1..Len(addLog) : addLog[i].name = name /\ addLog[i].err = NoErr}
              IN  IF S = {}
                    THEN name \notin Names(repo)
                    ELSE /\ name \in Names(repo)
                         /\ \E i \in S :
                               /\ \A j \in S : i <= j
                               /\ repo.macro[name] = [steps |-> addLog[i].steps]

C19_Witness ==
    /\ macOp = "add"
    /\ Len(addLog) = 3
    /\ addLog[1].name = "m1" /\ addLog[1].steps = <<"s1">> /\ addLog[1].err = NoErr
    /\ addLog[2].name = "m1" /\ addLog[2].steps = <<"s2">>
    /\ addLog[2].err = Errorf("duplicate macro", <<"m1">>)
    /\ addLog[3].name = "m2" /\ addLog[3].steps = <<>>
    /\ repo.macro = [n \in {"m1"} |-> [steps |-> <<"s1">>]]

\* C20: parseConfig of a source whose version is not "1" returns the
\* unsupported-version error and no Repo, and has made no AddCommands call.
C20_VersionCheckedFirst ==
    (macOp = "parse" /\ ~cfgIn.malformed /\ cfgIn.Version # "1") =>
        /\ parsed.repo = NoRepo
        /\ parsed.err = Errorf("unsupported macro version", <<cfgIn.Version>>)
        /\ addLog = <<>>

C20_Witness ==
    /\ macOp = "parse"
    /\ cfgIn.Version = "2"
    /\ DOMAIN cfgIn.Macro = MacroNames
    /\ \A n \in MacroNames : cfgIn.Macro[n] = <<"s1">>
    /\ parsed.repo = NoRepo
    /\ parsed.err.text = "unsupported macro version"
    /\ addLog = <<>>

\* C23: whatever the interleaving of the Close() calls made on one
\* Connection, ws.Close() is called at most once.
C23_TransportClosedOnce == wsCloses <= 1

\* C22: when Connection.Send succeeds, CommandSend.Execute returns no error
\* and a PrintMsg command for the message {Request, request text}, which is
\* the next command executed; when Connection.Send fails it returns the
\* error "fail to send request" and no next command, the run ends there and
\* nothing was printed for the request.
C22_SendResult ==
    [][(drvPc = "inSend" /\ drvPc' # "inSend") =>
          LET e == execLog'[Len(execLog')] IN
          /\ Len(execLog') = Len(execLog) + 1
          /\ e.cmd = cmd
          /\ cmd.kind = "Send"
          /\ IF sendRes[Driver] = "ok"
               THEN /\ e.err = "nil"
                    /\ e.next = NewCommandPrintMsg(Message("Request", cmd.request))
                    /\ e.next.msg.Type = "Request"
                    /\ e.next.msg.Data = sendArg[Driver]
                    /\ drvPc' = "run"
                    /\ cmd' = e.next
               ELSE /\ sendRes[Driver] = "err"
                    /\ e.err = "fail to send request"
                    /\ e.next = Nil
                    /\ drvPc' = "returned"
                    /\ seqErr' = e.err
                    /\ cmd' = Nil
          /\ output' = output
          /\ fileOut' = fileOut]_vars

\* a second Send failed after a first one was sent and printed
C22_Witness ==
    /\ drvPc = "returned"
    /\ Len(execLog) = 3
    /\ execLog[3].cmd.kind = "Send"
    /\ execLog[3].err = "fail to send request"
    /\ execLog[1].cmd.kind = "Send"
    /\ execLog[1].err = "nil"
    /\ Len(output) = 1

\* C21: a run of the Edit command whose editor returns a non-empty text and
\* no error goes on to Send(that text), and after a successful send to
\* PrintMsg(the Request sent), whose chain ends there; when the editor
\* returns an error or the empty text the Edit command returns no next
\* command and the editor's error (nil for the empty text), so no Send is
\* executed for it.
C21_EditChain ==
    /\ \A i \in 1..Len(execLog) :
          LET e == execLog[i] IN
          /\ (e.cmd.kind = "Edit" /\ e.next # Nil) =>
                /\ e.next.kind = "Send"
                /\ e.next.request \in Data
                /\ e.err = "nil"
                /\ i < Len(execLog) => execLog[i + 1].cmd = e.next
          /\ (e.cmd.kind = "Edit" /\ e.next = Nil) =>
                /\ e.err \in EditorErrs
                /\ i < Len(execLog) => execLog[i + 1].cmd.kind # "Send"
          /\ e.cmd.kind = "Send" =>
                /\ i > 1
                /\ execLog[i - 1].cmd.kind = "Edit"
                /\ execLog[i - 1].next = e.cmd
                /\ (e.err = "nil" /\ i < Len(execLog)) =>
                      /\ execLog[i + 1].cmd
                            = NewCommandPrintMsg(Message("Request", e.cmd.request))
                      /\ execLog[i + 1].next = Nil
                      /\ execLog[i + 1].err = "nil"
    /\ (facOp = "Edit" /\ drvPc # "inEdit" /\ execLog # <<>>) =>
          \E i \in 1..Len(execLog) :
              LET e == execLog[i] IN
              /\ e.cmd.kind = "Edit"
              /\ \A j \in (i + 1)..Len(execLog) : execLog[j].cmd.kind # "Edit"
              /\ IF edErr = "nil" /\ fac.req # ""
                   THEN e.next = NewCommandSend(fac.req) /\ e.err = "nil"
                   ELSE e.next = Nil /\ e.err = edErr
    /\ (drvPc = "returned" /\ facOp = "Edit" /\ edErr # "nil") => seqErr = edErr

\* one Edit whose text was sent and printed, then one whose editor failed
C21_Witness ==
    /\ drvPc = "returned"
    /\ Len(execLog) = 4
    /\ execLog[1].cmd.kind = "Edit"
    /\ execLog[2].cmd.kind = "Send"
    /\ execLog[3].cmd.kind = "PrintMsg"
    /\ execLog[4].cmd.kind = "Edit"
    /\ execLog[4].err = "editor error"
    /\ output = <<[arrow |-> "->", text |-> execLog[2].cmd.request]>>

====
